---- MODULE Spec2Model ----
(***************************************************************************)
(* Model of the conditional-independence oracle DiscreteData of ramBLe     *)
(* (detail/DiscreteData.hpp): pValue / assocScore / isIndependent, the     *)
(* local minAssocScore family and the distributed isIndependentAnySubset   *)
(* that shares the subset scan over the ranks of a communicator.           *)
(*                                                                         *)
(* Doubles in [0.0, 1.0] are kept on a grid: the integer v stands for      *)
(* v / Resolution, so 1.0 is Resolution.                                   *)
(***************************************************************************)
EXTENDS Integers, Sequences, FiniteSets, TLC

\* ---------------------------------------------------------------- bounds
NumVars == 2        \* variables that may appear in a conditioning set
MaxG2 == 2          \* largest G-square statistic computeGSquare reports
MaxDf == 1          \* largest number of degrees of freedom it reports
Resolution == 4     \* grid steps between 0.0 and 1.0
MaxT == 2           \* largest CSL_TESTS_THRESHOLD
MaxRanks == 3       \* largest communicator size

\* std::numeric_limits<double>::max(), far above every score of the grid
DblMax == 1000000

Vars == 1..NumVars
Alphas == 1..(Resolution - 1)
CommSizes == 1..MaxRanks
\* what computeGSquare may return for the pair (x, y): <<degrees of freedom,
\* G-square>> for every conditioning set. The degrees of freedom carry the
\* factor (rx - 1)(ry - 1) of the pair, so they are zero for every set or for
\* none, and a table without degrees of freedom has a G-square of zero.
GSquareTables(inUse) ==
  UNION {[SUBSET inUse -> {df} \X (IF df = 0 THEN {0} ELSE 0..MaxG2)] : df \in 0..MaxDf}

VARIABLES
  gsq,          \* m_counter seen through computeGSquare: conditioning set -> <<df, G2>>
  m_threshold,  \* the significance threshold alpha
  given,        \* argument given (Z)
  seed,         \* argument seed
  maxSize,      \* argument maxSize
  size,         \* comm.size()
  threshold,    \* static threshold = testThreshold()
  pc,           \* per rank: "loop", "allreduce", "done"
  mine, others, r, minScore,   \* per rank: the locals of the distributed scan
  i, sit,       \* per rank: subset size of the outer loop, position of the iterator
  ret,          \* per rank: the value returned
  sent,         \* per rank: the values it contributed to allreduce, in order
  op, res,      \* local calls: the member function applied and what it returned
  earlier,      \* the booleans returned by the same call on smaller communicators
  options,      \* driver: the command line as ProgramOptions holds it
  at,           \* driver, per rank: the position reached in main
  peer,         \* driver: the loop variable i of rank 0 in the host-name loop
  names,        \* driver: the ranks whose host name is on its way to rank 0
  cout, cerr,   \* driver, per rank: what was written to stdout and to stderr
  dot,          \* driver, per rank: the writeGraphviz calls made
  returned,     \* driver, per rank: the value main returned, none while it runs
  finalized,    \* driver, per rank: whether MPI_Finalize was called
  maxConditioning,  \* driver, per rank: the cap handed to getAlgorithm, none before
  firstSet, secondSet,  \* set utilities: the std::set arguments first and second
  value, max,   \* set utilities: the element looked up, the capacity argument
  algo,         \* discovery: the variant of the algorithm object
  assoc,        \* discovery: assocScore for every pair and conditioning set
  cache,        \* discovery: the blankets the object holds, by target
  target, mb,   \* discovery: the argument of getMB and the blanket M it builds
  stage         \* discovery: "idle", "forward", "backward" or "returned"

inputs == <<gsq, m_threshold, given, seed, maxSize, size, threshold>>
ranks == <<pc, mine, others, r, minScore, i, sit, ret, sent>>
local == <<op, res>>
driver == <<options, at, peer, names, cout, cerr, dot, returned, finalized, maxConditioning>>
sets == <<firstSet, secondSet, value, max>>
discovery == <<algo, assoc, cache, target, mb, stage>>
vars == <<inputs, ranks, local, earlier, driver, sets, discovery>>

Min2(a, b) == IF b < a THEN b ELSE a

\* no program is running: the driver's state while a member function of
\* DiscreteData is exercised on its own
IdleDriver ==
  /\ options = [parseError |-> FALSE]
  /\ at = [p \in 0..0 |-> "exited"]
  /\ peer = 1
  /\ names = {}
  /\ cout = [p \in 0..0 |-> << >>]
  /\ cerr = [p \in 0..0 |-> << >>]
  /\ dot = [p \in 0..0 |-> 0]
  /\ returned = [p \in 0..0 |-> {}]
  /\ finalized = [p \in 0..0 |-> FALSE]
  /\ maxConditioning = [p \in 0..0 |-> {}]

\* no set utility is being exercised
IdleSets ==
  /\ firstSet = {}
  /\ secondSet = {}
  /\ value = 0
  /\ max = 0

\* no discovery object exists
IdleDiscovery ==
  /\ algo = "none"
  /\ assoc = << >>
  /\ cache = << >>
  /\ target = 0
  /\ mb = {}
  /\ stage = "idle"

\* ------------------------------------------------------- subset enumeration
SetMin(S) == CHOOSE e \in S : \A f \in S : e <= f

RECURSIVE Subsets(_, _)
Subsets(S, k) ==
  IF k = 0 THEN << {} >>
  ELSE IF Cardinality(S) < k THEN << >>
  ELSE LET e == SetMin(S)
           with == Subsets(S \ {e}, k - 1)
       IN  [j \in 1..Len(with) |-> with[j] \cup {e}] \o Subsets(S \ {e}, k)

\* ------------------------------------------------------------ the oracle
\* boost::math::cdf(complement(chi_squared(df), g2)) on the grid: 1.0 at 0,
\* falling as the statistic grows, rising with the degrees of freedom
ChiSquaredComplement(df, g2) ==
  LET v == Resolution - 2 * g2 + (df - 1)
  IN  IF v < 0 THEN 0 ELSE IF v > Resolution THEN Resolution ELSE v

\* pValue with the distribution built before the zero test
pValueOutcomeBoostFirst(cond) ==
  LET first == gsq[cond][1]
      second == gsq[cond][2]
  IN  IF first <= 0 THEN [raised |-> TRUE, value |-> 0]
      ELSE IF second = 0 THEN [raised |-> FALSE, value |-> Resolution]
      ELSE [raised |-> FALSE, value |-> ChiSquaredComplement(first, second)]

\* pValue: what it returns, or that chi_squared(df) raised its domain error
pValueOutcome(cond) ==
  LET first == gsq[cond][1]
      second == gsq[cond][2]
  IN  IF second = 0 THEN [raised |-> FALSE, value |-> Resolution]
      ELSE IF first <= 0 THEN [raised |-> TRUE, value |-> 0]
      ELSE [raised |-> FALSE, value |-> ChiSquaredComplement(first, second)]

pValue(cond) == pValueOutcome(cond).value

assocScore(cond) == Resolution - pValue(cond)

\* isIndependent(x, y, given)
isIndependentGiven(cond) == pValue(cond) > m_threshold

\* isIndependent holding already at the threshold
isIndependentAtThreshold(score) == Resolution - score >= m_threshold

\* isIndependent(assocScore)
isIndependent(score) == Resolution - score > m_threshold

\* ------------------------------------------------------- the local scans
\* Each scan returns its locals when the loops end; scored lists the
\* conditioning sets handed to assocScore, in call order.
\* the inner loop keeping the last score instead of the smaller one
RECURSIVE minAssocScoreInnerKeepsLast(_, _, _)
minAssocScoreInnerKeepsLast(subsets, k, st) ==
  IF k > Len(subsets) THEN st
  ELSE LET condition == subsets[k]
           thisScore == assocScore(condition)
       IN  minAssocScoreInnerKeepsLast(subsets, k + 1,
             [minScore |-> thisScore,
              scored |-> Append(st.scored, condition)])

RECURSIVE minAssocScoreInner(_, _, _)
minAssocScoreInner(subsets, k, st) ==
  IF k > Len(subsets) THEN st
  ELSE LET condition == subsets[k]
           thisScore == assocScore(condition)
       IN  minAssocScoreInner(subsets, k + 1,
             [minScore |-> Min2(thisScore, st.minScore),
              scored |-> Append(st.scored, condition)])

RECURSIVE minAssocScoreOuter(_, _, _, _)
minAssocScoreOuter(gv, subsetSize, sz, st) ==
  IF sz <= subsetSize /\ st.minScore > m_threshold
  THEN minAssocScoreOuter(gv, subsetSize, sz + 1,
         minAssocScoreInner(Subsets(gv, sz), 1, st))
  ELSE st

minAssocScoreScan(gv, mx) ==
  minAssocScoreOuter(gv, Min2(Cardinality(gv), mx), 0,
                     [minScore |-> DblMax, scored |-> << >>])

minAssocScore(gv, mx) == minAssocScoreScan(gv, mx).minScore

\* the inner loop of the seeded scan without the union with seed
RECURSIVE minAssocScoreSeedInnerNoUnion(_, _, _, _)
minAssocScoreSeedInnerNoUnion(subsets, sd, k, st) ==
  IF k > Len(subsets) THEN st
  ELSE LET condition == subsets[k]
           thisScore == assocScore(condition)
       IN  minAssocScoreSeedInnerNoUnion(subsets, sd, k + 1,
             [minScore |-> Min2(thisScore, st.minScore),
              scored |-> Append(st.scored, condition)])

RECURSIVE minAssocScoreSeedInner(_, _, _, _)
minAssocScoreSeedInner(subsets, sd, k, st) ==
  IF k > Len(subsets) THEN st
  ELSE LET condition == subsets[k] \cup sd
           thisScore == assocScore(condition)
       IN  minAssocScoreSeedInner(subsets, sd, k + 1,
             [minScore |-> Min2(thisScore, st.minScore),
              scored |-> Append(st.scored, condition)])

RECURSIVE minAssocScoreSeedOuter(_, _, _, _, _)
minAssocScoreSeedOuter(gv, sd, subsetSize, sz, st) ==
  IF sz <= subsetSize /\ st.minScore > m_threshold
  THEN minAssocScoreSeedOuter(gv, sd, subsetSize, sz + 1,
         minAssocScoreSeedInner(Subsets(gv, sz), sd, 1, st))
  ELSE st

minAssocScoreSeedScan(gv, sd, mx) ==
  minAssocScoreSeedOuter(gv, sd, Min2(Cardinality(gv), mx), 0,
                         [minScore |-> DblMax, scored |-> << >>])

minAssocScoreSeed(gv, sd, mx) == minAssocScoreSeedScan(gv, sd, mx).minScore

\* the inner loop replacing the subset on a tie as well
RECURSIVE minAssocScoreSubsetInnerOnTie(_, _, _)
minAssocScoreSubsetInnerOnTie(subsets, k, st) ==
  IF k > Len(subsets) THEN st
  ELSE LET condition == subsets[k]
           thisScore == assocScore(condition)
           less == thisScore <= st.minScore
       IN  minAssocScoreSubsetInnerOnTie(subsets, k + 1,
             [minScore |-> IF less THEN thisScore ELSE st.minScore,
              z |-> IF less THEN condition ELSE st.z,
              scored |-> Append(st.scored, condition)])

RECURSIVE minAssocScoreSubsetInner(_, _, _)
minAssocScoreSubsetInner(subsets, k, st) ==
  IF k > Len(subsets) THEN st
  ELSE LET condition == subsets[k]
           thisScore == assocScore(condition)
           less == thisScore < st.minScore
       IN  minAssocScoreSubsetInner(subsets, k + 1,
             [minScore |-> IF less THEN thisScore ELSE st.minScore,
              z |-> IF less THEN condition ELSE st.z,
              scored |-> Append(st.scored, condition)])

RECURSIVE minAssocScoreSubsetOuter(_, _, _, _)
minAssocScoreSubsetOuter(gv, subsetSize, sz, st) ==
  IF sz <= subsetSize /\ st.minScore > m_threshold
  THEN minAssocScoreSubsetOuter(gv, subsetSize, sz + 1,
         minAssocScoreSubsetInner(Subsets(gv, sz), 1, st))
  ELSE st

minAssocScoreSubsetScan(gv, mx) ==
  minAssocScoreSubsetOuter(gv, Min2(Cardinality(gv), mx), 0,
                           [minScore |-> DblMax, z |-> {}, scored |-> << >>])

minAssocScoreSubset(gv, mx) ==
  LET st == minAssocScoreSubsetScan(gv, mx)
  IN  << st.minScore, st.z >>

\* ------------------------------------------------- calls of the local API
\* the arguments and the data: the counter answers for every conditioning
\* set that can be built from the variables in use
InitInputs(inUse) ==
  /\ gsq \in GSquareTables(inUse)
  /\ m_threshold \in Alphas
  /\ given \in SUBSET inUse
  /\ maxSize \in 0..NumVars

IdleRanks ==
  /\ size = 1
  /\ threshold = 0
  /\ pc = [p \in 0..0 |-> "done"]
  /\ mine = [p \in 0..0 |-> 0]
  /\ others = [p \in 0..0 |-> 0]
  /\ r = [p \in 0..0 |-> 0]
  /\ minScore = [p \in 0..0 |-> DblMax]
  /\ i = [p \in 0..0 |-> 0]
  /\ sit = [p \in 0..0 |-> 1]
  /\ ret = [p \in 0..0 |-> FALSE]
  /\ sent = [p \in 0..0 |-> << >>]

InitLocal ==
  /\ InitInputs(Vars)
  /\ earlier = {}
  /\ seed \in SUBSET Vars
  /\ IdleRanks
  /\ op = "none"
  /\ res = [raised |-> FALSE, value |-> 0, scored |-> << >>]
  /\ IdleDriver
  /\ IdleSets
  /\ IdleDiscovery

Returns(name, outcome) ==
  /\ op = "none"
  /\ op' = name
  /\ res' = outcome
  /\ UNCHANGED <<inputs, ranks, earlier, driver, sets, discovery>>

CallPValue ==
  Returns("pValue", [raised |-> pValueOutcome(given).raised,
                     value |-> pValueOutcome(given).value,
                     scored |-> << given >>])

CallAssocScore ==
  Returns("assocScore", [raised |-> pValueOutcome(given).raised,
                         value |-> assocScore(given),
                         scored |-> << given >>])

CallIsIndependent ==
  Returns("isIndependent", [raised |-> pValueOutcome(given).raised,
                            value |-> isIndependentGiven(given),
                            scored |-> << given >>])

CallMinAssocScore ==
  LET st == minAssocScoreScan(given, maxSize)
  IN  Returns("minAssocScore",
              [raised |-> FALSE, value |-> minAssocScore(given, maxSize),
               scored |-> st.scored])

CallMinAssocScoreSeed ==
  LET st == minAssocScoreSeedScan(given, seed, maxSize)
  IN  Returns("minAssocScoreSeed",
              [raised |-> FALSE, value |-> minAssocScoreSeed(given, seed, maxSize),
               scored |-> st.scored])

CallMinAssocScoreSubset ==
  LET st == minAssocScoreSubsetScan(given, maxSize)
  IN  Returns("minAssocScoreSubset",
              [raised |-> FALSE, value |-> minAssocScoreSubset(given, maxSize),
               scored |-> st.scored])

\* the local isIndependentAnySubset: isIndependent of the minimum of the scan
isIndependentAnySubset(gv, mx) == isIndependent(minAssocScore(gv, mx))

CallIsIndependentAnySubset ==
  LET st == minAssocScoreScan(given, maxSize)
  IN  Returns("isIndependentAnySubset",
              [raised |-> FALSE, value |-> isIndependentAnySubset(given, maxSize),
               scored |-> st.scored])

NextLocal ==
  \/ CallPValue
  \/ CallAssocScore
  \/ CallIsIndependent
  \/ CallMinAssocScore
  \/ CallMinAssocScoreSeed
  \/ CallMinAssocScoreSubset
  \/ CallIsIndependentAnySubset

SpecLocal == InitLocal /\ [][NextLocal]_vars

\* ------------------------------------- the distributed isIndependentAnySubset
Ranks == 0..(size - 1)

\* std::min(given.size(), maxSize)
subsetSize == Min2(Cardinality(given), maxSize)

\* findMin keeping the larger argument
findMinKeepsLarger(a, b) == IF a <= b THEN b ELSE a

\* the lambda findMin
findMin(a, b) == IF a <= b THEN a ELSE b

\* mxx::allreduce(minScore, findMin, comm): findMin folded over what the ranks
\* 0..p contributed to the n-th collective
RECURSIVE allreduce(_, _)
allreduce(n, p) ==
  IF p = 0 THEN sent[0][n] ELSE findMin(allreduce(n, p - 1), sent[p][n])

\* Advance with the round-robin counter started again for every subset size
AdvanceResetsR(p) ==
  /\ r' = [r EXCEPT ![p] = IF sit[p] < Len(Subsets(given, i[p]))
                             THEN (r[p] + 1) % size ELSE 0]
  /\ IF sit[p] < Len(Subsets(given, i[p]))
     THEN sit' = [sit EXCEPT ![p] = sit[p] + 1] /\ i' = i
     ELSE sit' = [sit EXCEPT ![p] = 1] /\ i' = [i EXCEPT ![p] = i[p] + 1]

\* ++sit, and ++i with a fresh iterator once the subsets of size i are used up;
\* r = (r + 1) % comm.size()
Advance(p) ==
  /\ r' = [r EXCEPT ![p] = (r[p] + 1) % size]
  /\ IF sit[p] < Len(Subsets(given, i[p]))
     THEN sit' = [sit EXCEPT ![p] = sit[p] + 1] /\ i' = i
     ELSE sit' = [sit EXCEPT ![p] = 1] /\ i' = [i EXCEPT ![p] = i[p] + 1]

\* the synchronisation test counting only the rank's own tests
SyncDueOnMine(m, o) == m = threshold

\* (mine + others) == (threshold * comm.size())
SyncDue(m, o) == m + o = threshold * size

\* One pass through the body of the inner loop on rank p, up to the call of
\* allreduce when the counters ask for one
Iterate(p) ==
  /\ pc[p] = "loop"
  /\ i[p] <= subsetSize
  /\ LET isMine == (p = r[p])
         mine1 == IF isMine THEN mine[p] + 1 ELSE mine[p]
         others1 == IF isMine THEN others[p] ELSE others[p] + 1
         minScore1 == IF isMine /\ ~isIndependent(minScore[p])
                      THEN Min2(minScore[p], assocScore(Subsets(given, i[p])[sit[p]]))
                      ELSE minScore[p]
     IN  /\ mine' = [mine EXCEPT ![p] = mine1]
         /\ others' = [others EXCEPT ![p] = others1]
         /\ minScore' = [minScore EXCEPT ![p] = minScore1]
         /\ IF SyncDue(mine1, others1)
            THEN /\ sent' = [sent EXCEPT ![p] = Append(sent[p], minScore1)]
                 /\ pc' = [pc EXCEPT ![p] = "allreduce"]
                 /\ UNCHANGED <<r, i, sit>>
            ELSE /\ Advance(p)
                 /\ UNCHANGED <<sent, pc>>
  /\ UNCHANGED <<inputs, ret, local, earlier, driver, sets, discovery>>

\* allreduce returns on rank p once every rank of the communicator has entered
\* the same collective; then the test of the reduced score
AllReduce(p) ==
  /\ pc[p] = "allreduce"
  /\ \A q \in Ranks : Len(sent[q]) >= Len(sent[p])
  /\ LET reduced == allreduce(Len(sent[p]), size - 1)
     IN  /\ minScore' = [minScore EXCEPT ![p] = reduced]
         /\ IF ~isIndependent(reduced)
            THEN /\ mine' = [mine EXCEPT ![p] = 0]
                 /\ others' = [others EXCEPT ![p] = 0]
                 /\ Advance(p)
                 /\ pc' = [pc EXCEPT ![p] = "loop"]
                 /\ UNCHANGED ret
            ELSE /\ ret' = [ret EXCEPT ![p] = TRUE]
                 /\ pc' = [pc EXCEPT ![p] = "done"]
                 /\ UNCHANGED <<mine, others, r, i, sit>>
  /\ UNCHANGED <<inputs, sent, local, earlier, driver, sets, discovery>>

\* the loops are over: return this->isIndependent(minScore)
Return(p) ==
  /\ pc[p] = "loop"
  /\ i[p] > subsetSize
  /\ ret' = [ret EXCEPT ![p] = isIndependent(minScore[p])]
  /\ pc' = [pc EXCEPT ![p] = "done"]
  /\ UNCHANGED <<inputs, mine, others, r, minScore, i, sit, sent, local, earlier, driver, sets, discovery>>

Init ==
  /\ \E inUse \in SUBSET Vars : InitInputs(inUse) /\ given = inUse
  /\ seed = {}
  /\ size \in CommSizes
  /\ threshold \in 0..MaxT
  /\ pc = [p \in Ranks |-> "loop"]
  /\ mine = [p \in Ranks |-> 0]
  /\ others = [p \in Ranks |-> 0]
  /\ r = [p \in Ranks |-> 0]
  /\ minScore = [p \in Ranks |-> DblMax]
  /\ i = [p \in Ranks |-> 0]
  /\ sit = [p \in Ranks |-> 1]
  /\ ret = [p \in Ranks |-> FALSE]
  /\ sent = [p \in Ranks |-> << >>]
  /\ op = "none"
  /\ res = [raised |-> FALSE, value |-> 0, scored |-> << >>]
  /\ IdleDriver
  /\ IdleSets
  /\ IdleDiscovery
  /\ earlier = {}

Next ==
  \/ \E p \in Ranks : Iterate(p)
  \/ \E p \in Ranks : AllReduce(p)
  \/ \E p \in Ranks : Return(p)

Spec == Init /\ [][Next]_vars

\* every rank runs on: a rank that can take a step takes it
FairSpec == Spec /\ \A p \in 0..(MaxRanks - 1) : WF_vars(p \in Ranks /\ (Iterate(p) \/ AllReduce(p) \/ Return(p)))

\* ------------------------------------ the same call on growing communicators
AllDone == \A p \in Ranks : pc[p] = "done"

\* the call is made again, on the same data, with one more rank
Rerun ==
  /\ AllDone
  /\ size < MaxRanks
  /\ earlier' = earlier \cup {ret[p] : p \in Ranks}
  /\ size' = size + 1
  /\ pc' = [p \in 0..size |-> "loop"]
  /\ mine' = [p \in 0..size |-> 0]
  /\ others' = [p \in 0..size |-> 0]
  /\ r' = [p \in 0..size |-> 0]
  /\ minScore' = [p \in 0..size |-> DblMax]
  /\ i' = [p \in 0..size |-> 0]
  /\ sit' = [p \in 0..size |-> 1]
  /\ ret' = [p \in 0..size |-> FALSE]
  /\ sent' = [p \in 0..size |-> << >>]
  /\ UNCHANGED <<gsq, m_threshold, given, seed, maxSize, threshold, local, driver, sets, discovery>>

InitEquiv == Init /\ size = 1

NextEquiv ==
  \/ Next
  \/ Rerun

SpecEquiv == InitEquiv /\ [][NextEquiv]_vars

\* ------------------------------------------------------------- the driver
\* the algorithm names of getAlgorithm in the order they are compared
AlgoNames == << "gs", "iamb", "inter.iamb", "mmpc", "hiton", "si.hiton.pc", "getpc" >>

\* getAlgorithm: the class of the object the unique_ptr owns, or the throw
getAlgorithm(algoName) ==
  IF algoName = "gs" THEN [raised |-> FALSE, object |-> "GSMB"]
  ELSE IF algoName = "iamb" THEN [raised |-> FALSE, object |-> "IAMB"]
  ELSE IF algoName = "inter.iamb" THEN [raised |-> FALSE, object |-> "InterIAMB"]
  ELSE IF algoName = "mmpc" THEN [raised |-> FALSE, object |-> "MMPC"]
  ELSE IF algoName = "hiton" THEN [raised |-> FALSE, object |-> "HITON"]
  ELSE IF algoName = "si.hiton.pc" THEN [raised |-> FALSE, object |-> "SemiInterleavedHITON"]
  ELSE IF algoName = "getpc" THEN [raised |-> FALSE, object |-> "GetPC"]
  ELSE [raised |-> TRUE, object |-> "none"]

\* one digit of the two-digit numbers that hold 32-bit values
Word == 2 ^ 16
Byte == 2 ^ 8

\* std::numeric_limits<uint32_t>::max(), high digit then low digit
Uint32Max == << Word - 1, Word - 1 >>

\* m * m as two digits; a square beyond 32 bits is reported as << Word, 0 >>
Square(m) ==
  IF m >= Word THEN << Word, 0 >>
  ELSE LET a == m \div Byte
           b == m % Byte
           low == 2 * a * b * Byte + b * b
       IN  << a * a + (low \div Word), low % Word >>

AtLeast(x, y) == x[1] > y[1] \/ (x[1] = y[1] /\ x[2] >= y[2])

\* the test with the square root cut down to an integer
tooManyObsTruncated(m) == m >= Word - 1

\* static_cast<double>(m) >= std::sqrt(std::numeric_limits<uint32_t>::max()):
\* both sides are non-negative, so the squares compare the same way; the root
\* is no integer and its double lies strictly between 2^16 - 1 and 2^16
tooManyObs(m) == AtLeast(Square(m), Uint32Max)

\* UintSet<uint8_t>::capacity() and UintSet<uint16_t>::capacity() at the
\* largest size parameter
Capacity8 == 2 ^ 8
Capacity16 == 2 ^ 16

\* the width of Var the outer getNeighborhood picks for n variables, 0 when
\* it throws; n - 1 is unsigned, so n = 0 wraps above every capacity. The
\* branches that differ only in the size parameter of the set are one.
VarWidth(n) ==
  IF n = 0 THEN 0
  ELSE IF n - 1 <= Capacity8 THEN 8
  ELSE IF n - 1 <= Capacity16 THEN 16
  ELSE 0

\* the names of the columns of the data file that matter, from index 0
ColumnNames == << "A" >>

\* data.varIndex: the position of the name, the number of variables if absent
varIndex(name, n) ==
  IF \E k \in 1..Len(ColumnNames) : ColumnNames[k] = name
  THEN (CHOOSE k \in 1..Len(ColumnNames) : ColumnNames[k] = name) - 1
  ELSE n

\* static_cast<Var>(v) for the unsigned Var of the given width
castToVar(v, width) == v % (2 ^ width)

\* Var maxConditioning = static_cast<Var>(std::min(options.numVars(),
\* options.maxConditioning())), Var being the type picked for n
conditioningCap(o) ==
  castToVar(Min2(o.numVars, o.maxConditioning), VarWidth(o.numVars))

\* getNeighborhood with writeGraphviz called on every rank
getNeighborhoodAllWrite(o, first) ==
  IF getAlgorithm(o.algoName).raised
  THEN [cout |-> << >>, dot |-> 0, maxConditioning |-> {conditioningCap(o)},
        thrown |-> "Requested algorithm not found."]
  ELSE IF o.targetVar # "" /\ varIndex(o.targetVar, o.numVars) = o.numVars
  THEN [cout |-> << >>, dot |-> 0, maxConditioning |-> {conditioningCap(o)},
        thrown |-> "Target variable not found."]
  ELSE LET network == o.learnNetwork \/ o.outputFile # ""
           write == o.outputFile # ""
       IN  [cout |-> (IF o.targetVar # "" /\ first THEN << "neighborhood time" >> ELSE << >>)
                     \o (IF network /\ first THEN << "network time" >> ELSE << >>)
                     \o (IF network /\ write THEN << "writing time" >> ELSE << >>),
            dot |-> IF network /\ write THEN 1 ELSE 0,
            maxConditioning |-> {conditioningCap(o)},
            thrown |-> ""]

\* the inner getNeighborhood on one rank: what it writes and what it throws
\* ("" when it returns)
getNeighborhood(o, first) ==
  IF getAlgorithm(o.algoName).raised
  THEN [cout |-> << >>, dot |-> 0, maxConditioning |-> {conditioningCap(o)},
        thrown |-> "Requested algorithm not found."]
  ELSE IF o.targetVar # "" /\ varIndex(o.targetVar, o.numVars) = o.numVars
  THEN [cout |-> << >>, dot |-> 0, maxConditioning |-> {conditioningCap(o)},
        thrown |-> "Target variable not found."]
  ELSE LET network == o.learnNetwork \/ o.outputFile # ""
           write == first /\ o.outputFile # ""
       IN  [cout |-> (IF o.targetVar # "" /\ first THEN << "neighborhood time" >> ELSE << >>)
                     \o (IF network /\ first THEN << "network time" >> ELSE << >>)
                     \o (IF network /\ write THEN << "writing time" >> ELSE << >>),
            dot |-> IF network /\ write THEN 1 ELSE 0,
            maxConditioning |-> {conditioningCap(o)},
            thrown |-> ""]

\* the try block of main on one rank, up to the result line or the throw
tryBlock(o, first) ==
  LET warning == IF tooManyObs(o.numObs) THEN << "WARNING" >> ELSE << >>
      read == IF first THEN << "reading time" >> ELSE << >>
      nbr == IF o.counterType # "ct"
             THEN [cout |-> << >>, dot |-> 0, maxConditioning |-> {},
                   thrown |-> "Requested counter not found."]
             ELSE IF VarWidth(o.numVars) = 0
             THEN [cout |-> << >>, dot |-> 0, maxConditioning |-> {},
                   thrown |-> "The given number of variables is not supported."]
             ELSE getNeighborhood(o, first)
  IN  [cerr |-> warning, cout |-> read \o nbr.cout \o
                 (IF nbr.thrown = "" /\ first THEN << "result" >> ELSE << >>),
       dot |-> nbr.dot, maxConditioning |-> nbr.maxConditioning, thrown |-> nbr.thrown]

\* the command line: options that main never reads are left at their defaults
NearOverflow == 1   \* observation counts this close to 2^16 are tried
ObsCounts == {1} \cup ((Word - NearOverflow)..(Word + NearOverflow))
VarCounts == {0, 2, Capacity8 + 1, Capacity8 + 2, Capacity16 + 2}
ConditioningCaps == {1, Capacity16 + 2}
SeqRange(s) == {s[k] : k \in 1..Len(s)}

DefaultOptions ==
  [parseError |-> FALSE, hostNames |-> FALSE, warmupMPI |-> FALSE,
   numVars |-> 2, numObs |-> 1, maxConditioning |-> 1,
   counterType |-> "ct", algoName |-> "gs",
   targetVar |-> "", discoverMB |-> FALSE, learnNetwork |-> FALSE, outputFile |-> ""]

AllOptions ==
  [parseError : BOOLEAN, hostNames : BOOLEAN, warmupMPI : BOOLEAN,
   numVars : VarCounts, numObs : ObsCounts, maxConditioning : ConditioningCaps,
   counterType : {"ct", "bvc"},
   algoName : SeqRange(AlgoNames) \cup {"pc.stable"},
   targetVar : {"", "A", "Z"}, discoverMB : BOOLEAN,
   learnNetwork : BOOLEAN, outputFile : {"", "net.dot"}]

\* the named fields of o hold their defaults
Unread(o, fields) == \A f \in fields : o[f] = DefaultOptions[f]

Canonical(o) ==
  /\ o.parseError => Unread(o, DOMAIN o \ {"parseError"})
  /\ o.counterType # "ct" =>
       Unread(o, {"numVars", "maxConditioning", "algoName", "targetVar", "discoverMB",
                  "learnNetwork", "outputFile"})
  /\ VarWidth(o.numVars) = 0 =>
       Unread(o, {"maxConditioning", "algoName", "targetVar", "discoverMB", "learnNetwork",
                  "outputFile"})
  /\ getAlgorithm(o.algoName).raised =>
       Unread(o, {"targetVar", "discoverMB", "learnNetwork", "outputFile"})
  /\ o.targetVar # "A" => Unread(o, {"discoverMB"})
  /\ o.targetVar = "Z" => Unread(o, {"learnNetwork", "outputFile"})
  /\ o.outputFile # "" => Unread(o, {"learnNetwork"})

InitDriver ==
  /\ size \in CommSizes
  /\ options \in {o \in AllOptions : Canonical(o)}
  /\ size = 1 => ~options.warmupMPI
  /\ at = [p \in Ranks |-> "parse"]
  /\ peer = 1
  /\ names = {}
  /\ cout = [p \in Ranks |-> IF p = 0 THEN << "init time" >> ELSE << >>]
  /\ cerr = [p \in Ranks |-> << >>]
  /\ dot = [p \in Ranks |-> 0]
  /\ returned = [p \in Ranks |-> {}]
  /\ finalized = [p \in Ranks |-> FALSE]
  /\ maxConditioning = [p \in Ranks |-> {}]
  /\ gsq = [z \in {{}} |-> << 0, 0 >>]
  /\ m_threshold = 1
  /\ given = {}
  /\ seed = {}
  /\ maxSize = 0
  /\ threshold = 0
  /\ pc = [p \in 0..0 |-> "done"]
  /\ mine = [p \in 0..0 |-> 0]
  /\ others = [p \in 0..0 |-> 0]
  /\ r = [p \in 0..0 |-> 0]
  /\ minScore = [p \in 0..0 |-> DblMax]
  /\ i = [p \in 0..0 |-> 0]
  /\ sit = [p \in 0..0 |-> 1]
  /\ ret = [p \in 0..0 |-> FALSE]
  /\ sent = [p \in 0..0 |-> << >>]
  /\ op = "none"
  /\ res = [raised |-> FALSE, value |-> 0, scored |-> << >>]
  /\ earlier = {}
  /\ IdleSets
  /\ IdleDiscovery

\* Parse with a handler that reports the error and goes on
ParseGoesOn(p) ==
  /\ at[p] = "parse"
  /\ cerr' = [cerr EXCEPT ![p] = IF p = 0 /\ options.parseError
                                  THEN Append(@, "po::error") ELSE @]
  /\ at' = [at EXCEPT ![p] = "hostNames"]
  /\ UNCHANGED <<options, maxConditioning, peer, names, cout, dot, returned, finalized,
                 inputs, ranks, local, earlier, sets, discovery>>

\* options.parse and the handler of po::error
Parse(p) ==
  /\ at[p] = "parse"
  /\ IF options.parseError
     THEN /\ cerr' = [cerr EXCEPT ![p] = IF p = 0 THEN Append(@, "po::error") ELSE @]
          /\ returned' = [returned EXCEPT ![p] = {1}]
          /\ at' = [at EXCEPT ![p] = "exited"]
     ELSE /\ at' = [at EXCEPT ![p] = "hostNames"]
          /\ UNCHANGED <<cerr, returned>>
  /\ UNCHANGED <<options, maxConditioning, peer, names, cout, dot, finalized, inputs, ranks, local, earlier, sets, discovery>>

\* the host-name block: rank 0 prints its own name and turns to the others,
\* every other rank sends its name to rank 0
HostNames(p) ==
  /\ at[p] = "hostNames"
  /\ IF ~options.hostNames
     THEN /\ at' = [at EXCEPT ![p] = "execute"]
          /\ UNCHANGED <<names, cout>>
     ELSE IF p = 0
     THEN /\ cout' = [cout EXCEPT ![p] = @ \o << "*** Host names ***", "name" >>
                                          \o (IF size = 1 THEN << "******" >> ELSE << >>)]
          /\ at' = [at EXCEPT ![p] = IF size = 1 THEN "execute" ELSE "recv"]
          /\ UNCHANGED names
     ELSE /\ names' = names \cup {p}
          /\ at' = [at EXCEPT ![p] = "execute"]
          /\ UNCHANGED cout
  /\ UNCHANGED <<options, maxConditioning, peer, cerr, dot, returned, finalized, inputs, ranks, local, earlier, sets, discovery>>

\* rank 0 receives the name of rank peer and prints it
Receive(p) ==
  /\ at[p] = "recv"
  /\ peer \in names
  /\ names' = names \ {peer}
  /\ peer' = peer + 1
  /\ cout' = [cout EXCEPT ![p] = @ \o << "name" >>
                                   \o (IF peer + 1 = size THEN << "******" >> ELSE << >>)]
  /\ at' = [at EXCEPT ![p] = IF peer + 1 = size THEN "execute" ELSE "recv"]
  /\ UNCHANGED <<options, maxConditioning, cerr, dot, returned, finalized, inputs, ranks, local, earlier, sets, discovery>>

\* the warm-up and the try block with its handler of std::runtime_error
Execute(p) ==
  /\ at[p] = "execute"
  /\ LET run == tryBlock(options, p = 0)
         warmup == IF size > 1 /\ options.warmupMPI /\ p = 0
                   THEN << "warmup time" >> ELSE << >>
     IN  /\ cout' = [cout EXCEPT ![p] = @ \o warmup \o run.cout]
         /\ dot' = [dot EXCEPT ![p] = @ + run.dot]
         /\ maxConditioning' = [maxConditioning EXCEPT ![p] = run.maxConditioning]
         /\ IF run.thrown # ""
            THEN /\ cerr' = [cerr EXCEPT ![p] = @ \o run.cerr \o << run.thrown >>]
                 /\ returned' = [returned EXCEPT ![p] = {1}]
                 /\ at' = [at EXCEPT ![p] = "exited"]
            ELSE /\ cerr' = [cerr EXCEPT ![p] = @ \o run.cerr]
                 /\ at' = [at EXCEPT ![p] = "finalize"]
                 /\ UNCHANGED returned
  /\ UNCHANGED <<options, peer, names, finalized, inputs, ranks, local, earlier, sets, discovery>>

\* MPI_Finalize(); return 0;
Finalize(p) ==
  /\ at[p] = "finalize"
  /\ finalized' = [finalized EXCEPT ![p] = TRUE]
  /\ returned' = [returned EXCEPT ![p] = {0}]
  /\ at' = [at EXCEPT ![p] = "exited"]
  /\ UNCHANGED <<options, maxConditioning, peer, names, cout, cerr, dot, inputs, ranks, local, earlier, sets, discovery>>

NextDriver ==
  \/ \E p \in Ranks : Parse(p)
  \/ \E p \in Ranks : HostNames(p)
  \/ \E p \in Ranks : Receive(p)
  \/ \E p \in Ranks : Execute(p)
  \/ \E p \in Ranks : Finalize(p)

SpecDriver == InitDriver /\ [][NextDriver]_vars

\* ------------------------------------------------ the std::set utilities
MaxElement == 3     \* largest element of a std::set
Elements == 0..MaxElement

\* the scan and the local calls at rest
IdleScan ==
  /\ gsq = [z \in {{}} |-> << 0, 0 >>]
  /\ m_threshold = 1
  /\ given = {}
  /\ seed = {}
  /\ maxSize = 0
  /\ IdleRanks
  /\ op = "none"
  /\ res = [raised |-> FALSE, value |-> 0, scored |-> << >>]
  /\ earlier = {}

\* the elements of a std::set from begin() to end()
RECURSIVE Ordered(_)
Ordered(S) ==
  IF S = {} THEN << >> ELSE << SetMin(S) >> \o Ordered(S \ {SetMin(S)})

\* std::set_union over two sorted ranges, the output in the order written
RECURSIVE std_set_union(_, _)
std_set_union(a, b) ==
  IF a = << >> THEN b
  ELSE IF b = << >> THEN a
  ELSE IF Head(b) < Head(a) THEN << Head(b) >> \o std_set_union(a, Tail(b))
  ELSE << Head(a) >> \o std_set_union(Tail(a), IF Head(a) < Head(b) THEN b ELSE Tail(b))

\* std::set_difference over two sorted ranges
RECURSIVE std_set_difference(_, _)
std_set_difference(a, b) ==
  IF a = << >> THEN << >>
  ELSE IF b = << >> THEN a
  ELSE IF Head(a) < Head(b) THEN << Head(a) >> \o std_set_difference(Tail(a), b)
  ELSE std_set_difference(IF Head(b) < Head(a) THEN a ELSE Tail(a), Tail(b))

\* std::inserter(result, result.begin()) fed with the output
Inserted(out) == {out[k] : k \in 1..Len(out)}

set_init(set, c) == set

set_contains(set, v) ==
  LET range == Ordered(set)
  IN  \E k \in 1..Len(range) : range[k] = v

set_union(a, b) == Inserted(std_set_union(Ordered(a), Ordered(b)))

\* set_difference with the ranges handed over in the other order
set_differenceOfSecond(a, b) == Inserted(std_set_difference(Ordered(b), Ordered(a)))

set_difference(a, b) == Inserted(std_set_difference(Ordered(a), Ordered(b)))

InitSets ==
  /\ firstSet \in SUBSET Elements
  /\ secondSet \in SUBSET Elements
  /\ value \in Elements
  /\ max \in 0..(MaxElement + 1)
  /\ IdleScan
  /\ IdleDriver
  /\ IdleDiscovery

CallSetInit ==
  Returns("set_init", [raised |-> FALSE, value |-> set_init(firstSet, max), scored |-> << >>])

CallSetContains ==
  Returns("set_contains", [raised |-> FALSE, value |-> set_contains(firstSet, value), scored |-> << >>])

CallSetUnion ==
  Returns("set_union", [raised |-> FALSE, value |-> set_union(firstSet, secondSet), scored |-> << >>])

CallSetDifference ==
  Returns("set_difference", [raised |-> FALSE, value |-> set_difference(firstSet, secondSet), scored |-> << >>])

NextSets ==
  \/ CallSetInit
  \/ CallSetContains
  \/ CallSetUnion
  \/ CallSetDifference

SpecSets == InitSets /\ [][NextSets]_vars

\* ------------------------------------- the discovery skeleton of GSMB, IAMB
\* and InterIAMB: growth, shrink sweeps and the per-target cache
AllVars == 0..NumVars
Variants == {"GSMB", "IAMB", "InterIAMB"}

\* assocScore of a pair given a conditioning set: one score certifying
\* independence at the threshold of InitMB and two that do not
ScoreChoices == (Resolution - 2)..Resolution
Queries == {<< {x, y}, z >> : << x, y, z >> \in
              {q \in AllVars \X AllVars \X SUBSET AllVars : q[1] # q[2] /\ q[3] \cap {q[1], q[2]} = {}}}

Score(t, v, z) == assoc[<< {t, v}, z >>]

SetMax(S) == CHOOSE e \in S : \A f \in S : f <= e

\* growCandidate: the variable to insert, as a set of at most one element.
\* GSMB takes the first variable outside M that is dependent on the target
\* given M; IAMB and InterIAMB take the variable of the largest score given M,
\* the first of them on a tie, if that score does not certify independence.
growCandidate(a, t, M) ==
  LET candidates == AllVars \ (M \cup {t})
      dependent == {y \in candidates : ~isIndependent(Score(t, y, M))}
      top == SetMax({Score(t, y, M) : y \in candidates})
      best == SetMin({y \in candidates : Score(t, y, M) = top})
  IN  IF candidates = {} THEN {}
      ELSE IF a = "GSMB" THEN (IF dependent = {} THEN {} ELSE {SetMin(dependent)})
      ELSE IF isIndependent(top) THEN {} ELSE {best}

\* one shrink sweep over the members still to visit, in the order of the set
RECURSIVE Sweep(_, _, _)
Sweep(t, M, todo) ==
  IF todo = {} THEN M
  ELSE LET v == SetMin(todo)
       IN  Sweep(t, IF isIndependent(Score(t, v, M \ {v})) THEN M \ {v} ELSE M, todo \ {v})

\* the object holds the blanket of the target from now on
Cached(t, M) == [u \in DOMAIN cache \cup {t} |-> IF u = t THEN M ELSE cache[u]]

InitMB ==
  /\ algo \in Variants
  /\ assoc \in [Queries -> ScoreChoices]
  /\ cache = << >>
  /\ target = 0
  /\ mb = {}
  /\ stage = "idle"
  /\ gsq = [z \in {{}} |-> << 0, 0 >>]
  /\ m_threshold = 1
  /\ given = {}
  /\ seed = {}
  /\ maxSize = 0
  /\ IdleRanks
  /\ op = "none"
  /\ res = [raised |-> FALSE, value |-> 0, scored |-> << >>]
  /\ earlier = {}
  /\ IdleDriver
  /\ IdleSets

\* getMB(t) is called on the object at rest: a cached blanket is returned,
\* otherwise M starts empty
GetMB(t) ==
  /\ stage \in {"idle", "returned"}
  /\ target' = t
  /\ IF t \in DOMAIN cache
     THEN mb' = cache[t] /\ stage' = "returned"
     ELSE mb' = {} /\ stage' = "forward"
  /\ UNCHANGED <<algo, assoc, cache, inputs, ranks, local, earlier, driver, sets>>

\* one round of the forward phase; InterIAMB runs one shrink sweep after the
\* insertion and is done when growth fails
Grow ==
  /\ stage = "forward"
  /\ LET g == growCandidate(algo, target, mb)
     IN  IF g # {}
         THEN /\ mb' = IF algo = "InterIAMB"
                       THEN Sweep(target, mb \cup g, mb \cup g) ELSE mb \cup g
              /\ UNCHANGED <<stage, cache>>
         ELSE IF algo = "InterIAMB"
         THEN /\ stage' = "returned"
              /\ cache' = Cached(target, mb)
              /\ UNCHANGED mb
         ELSE /\ stage' = "backward"
              /\ UNCHANGED <<mb, cache>>
  /\ UNCHANGED <<algo, assoc, target, inputs, ranks, local, earlier, driver, sets>>

\* one sweep of the backward phase; the phase is over after a sweep without
\* a removal
Shrink ==
  /\ stage = "backward"
  /\ LET swept == Sweep(target, mb, mb)
     IN  IF swept # mb
         THEN mb' = swept /\ UNCHANGED <<stage, cache>>
         ELSE /\ stage' = "returned"
              /\ cache' = Cached(target, mb)
              /\ UNCHANGED mb
  /\ UNCHANGED <<algo, assoc, target, inputs, ranks, local, earlier, driver, sets>>

NextMB ==
  \/ \E t \in AllVars : GetMB(t)
  \/ Grow
  \/ Shrink

SpecMB == InitMB /\ [][NextMB]_vars

\* ---------------------------------------------------------------- claims
\* a rank that left the loops because the enumeration was used up
Exhausted(p) == pc[p] = "done" /\ i[p] > subsetSize

\* the smallest score any rank holds
GlobalMin == SetMin({minScore[q] : q \in Ranks})

\* the smallest value contributed to the n-th collective
Contributed(n) == SetMin({sent[q][n] : q \in Ranks})

\* C1: all ranks return the same boolean from one invocation of the
\* distributed isIndependentAnySubset.
C1_SameBooleanOnEveryRank ==
  \A p, q \in Ranks : pc[p] = "done" /\ pc[q] = "done" => ret[p] = ret[q]

\* C2: the distributed isIndependentAnySubset returns, on every rank, the
\* boolean that the same call on the same data returned on the smaller
\* communicators.
C2_SameBooleanForEverySize ==
  \A p \in Ranks : pc[p] = "done" => \A b \in earlier : ret[p] = b

\* C3: when the enumeration is used up without an early return, the boolean a
\* rank returns is isIndependent of the minimum over all ranks, as one last
\* all-reduce would give it.
C3_FinalAllReduce ==
  (\A q \in Ranks : Exhausted(q)) =>
     \A p \in Ranks : ret[p] = isIndependent(GlobalMin)

\* C4: a rank whose mine + others reaches T * P enters an all-reduce; the
\* all-reduce completes only once all ranks have entered it and gives the
\* minimum of the contributed scores; if that certifies independence the rank
\* returns true there, otherwise it resets mine and others to 0 and goes on
\* with the next subset and the reduced minScore.
C4_Step(p) ==
  /\ (/\ pc[p] = "loop"
      /\ mine'[p] + others'[p] # mine[p] + others[p]
      /\ mine'[p] + others'[p] = threshold * size)
     => /\ pc'[p] = "allreduce"
        /\ sent'[p] = Append(sent[p], minScore'[p])
  /\ (pc[p] = "allreduce" /\ pc'[p] # "allreduce")
     => LET n == Len(sent[p])
        IN  /\ \A q \in Ranks : Len(sent[q]) >= n
            /\ minScore'[p] = Contributed(n)
            /\ IF Resolution - Contributed(n) > m_threshold
               THEN pc'[p] = "done" /\ ret'[p] = TRUE
               ELSE /\ pc'[p] = "loop"
                    /\ mine'[p] = 0 /\ others'[p] = 0
                    /\ <<i'[p], sit'[p]>> # <<i[p], sit[p]>>

C4_BatchReduction == [][\A p \in Ranks : C4_Step(p)]_vars

\* C4 witness: a rank of a communicator of several ranks has left an
\* all-reduce with a score smaller than the one it contributed, still
\* dependent, its counters back at 0.
C4_Witness ==
  \E p \in Ranks :
    /\ size >= 2 /\ pc[p] = "loop" /\ sent[p] # << >>
    /\ mine[p] = 0 /\ others[p] = 0
    /\ minScore[p] < sent[p][Len(sent[p])]
    /\ ~isIndependent(minScore[p])

\* C5: every rank's call terminates, and all ranks have then entered the same
\* number of all-reduce operations: no rank is left waiting in an all-reduce
\* that another rank never enters.
C5_AllTerminate ==
  <>[](\A p \in Ranks : pc[p] = "done" /\ \A q \in Ranks : Len(sent[q]) = Len(sent[p]))

\* C5 witness: all ranks of a communicator of several ranks have returned
\* after two all-reduce operations.
C5_Witness ==
  /\ size >= 2 /\ AllDone
  /\ \A p \in Ranks : Len(sent[p]) = 2

\* the subsets of Z of at most k elements
UpTo(Z, k) == {W \in SUBSET Z : Cardinality(W) <= k}

\* the subsets of Z of sizes 0..m, by ascending size, each size in
\* combinatorial order
RECURSIVE ScanOrder(_, _)
ScanOrder(Z, m) ==
  IF m = 0 THEN Subsets(Z, 0) ELSE ScanOrder(Z, m - 1) \o Subsets(Z, m)

LastSizeScanned ==
  LET stops == {s \in 0..subsetSize :
                  \E W \in UpTo(given, s) : assocScore(W) <= m_threshold}
  IN  IF stops = {} THEN subsetSize ELSE SetMin(stops)

C7_NoScoreAfterIndependence ==
  op = "minAssocScore" =>
     \A k \in 1..(Len(res.scored) - 1) : ~isIndependent(assocScore(res.scored[k]))

\* C8: minAssocScoreSubset returns (s, W) with W a subset of Z of at most
\* min(|Z|, maxK) elements, assocScore(W) = s, s the smallest score among the
\* subsets scored, and W the first subset attaining s in scan order
\* (ascending size, then combinatorial order).
C8_FirstMinimisingSubset ==
  op = "minAssocScoreSubset" =>
     LET s == res.value[1]
         W == res.value[2]
         scored == res.scored
     IN  /\ W \subseteq given
         /\ Cardinality(W) <= Min2(Cardinality(given), maxSize)
         /\ assocScore(W) = s
         /\ \A k \in 1..Len(scored) : s <= assocScore(scored[k])
         /\ \E m \in 0..subsetSize : scored = ScanOrder(given, m)
         /\ \E k \in 1..Len(scored) :
              /\ scored[k] = W
              /\ \A j \in 1..(k - 1) : assocScore(scored[j]) > s

\* C8 witness: two scored subsets attain the minimum, and the one returned
\* is not the empty set.
C8_Witness ==
  /\ op = "minAssocScoreSubset"
  /\ res.value[2] # {}
  /\ \E j, k \in 1..Len(res.scored) :
       /\ j < k
       /\ res.scored[j] = res.value[2]
       /\ assocScore(res.scored[k]) = res.value[1]

\* C9: every conditioning set the seeded minAssocScore scores is S union seed
\* for a subset S of Z of at most min(|Z|, maxK) elements, and with an empty
\* seed it returns the score of minAssocScore(x, y, Z, maxK).
C9_SeededScan ==
  op = "minAssocScoreSeed" =>
     /\ \A k \in 1..Len(res.scored) :
          \E S \in UpTo(given, Min2(Cardinality(given), maxSize)) :
             res.scored[k] = S \cup seed
     /\ seed = {} => res.value = minAssocScore(given, maxSize)

\* C9 witness: a seeded scan of several subsets with a seed that holds a
\* variable outside Z.
C9_Witness ==
  /\ op = "minAssocScoreSeed"
  /\ seed \ given # {}
  /\ Len(res.scored) >= 2

\* C10: when the G-square statistic of (x, y, Z) is exactly zero, pValue
\* returns 1.0 and raises nothing, assocScore is 0 and isIndependent(x, y, Z)
\* is true, for every alpha of the grid.
C10_ZeroStatistic ==
  gsq[given][2] = 0 =>
     /\ op = "pValue" => res.raised = FALSE /\ res.value = Resolution
     /\ op = "assocScore" => res.raised = FALSE /\ res.value = 0
     /\ op = "isIndependent" => res.raised = FALSE /\ res.value = TRUE

\* C10 witness: isIndependent(x, y, Z) has answered true for a table without
\* degrees of freedom.
C10_Witness ==
  /\ op = "isIndependent"
  /\ gsq[given] = <<0, 0>>
  /\ res.value = TRUE

\* ---------------------------------------------------- claims on the driver
\* the command line holds a configuration error
ConfigError(o) ==
  /\ ~o.parseError
  /\ \/ o.counterType # "ct"
     \/ o.numVars = 0
     \/ o.numVars - 1 > Capacity16
     \/ o.algoName \notin SeqRange(AlgoNames)
     \/ o.targetVar \notin (SeqRange(ColumnNames) \cup {""})

\* the number of entries of a stream that are not the overflow warning
Reports(s) == Cardinality({k \in 1..Len(s) : s[k] # "WARNING"})

\* C11: a configuration error (unknown algorithm, unknown counter, target not
\* found, unsupported n) is reported exactly once, by rank 0 only, and every
\* rank exits with status 1, for every number of ranks
C11_ReportedOnceByRankZero ==
  \A p \in Ranks :
    (ConfigError(options) /\ at[p] = "exited") =>
      /\ returned[p] = {1}
      /\ Reports(cerr[p]) = IF p = 0 THEN 1 ELSE 0

C13_RankZeroSoleWriter ==
  \A p \in Ranks : p # 0 => cout[p] = << >> /\ dot[p] = 0

C13_Witness ==
  /\ size > 1
  /\ \A p \in Ranks : at[p] = "exited" /\ returned[p] = {0}
  /\ options.hostNames
  /\ {"name", "******", "neighborhood time", "result"} \subseteq SeqRange(cout[0])
  /\ dot[0] = 1

\* the class each supported name stands for
Variant ==
  [k \in 1..Len(AlgoNames) |->
     << "GSMB", "IAMB", "InterIAMB", "MMPC", "HITON", "SemiInterleavedHITON", "GetPC" >>[k]]

\* the rank went through the call of getAlgorithm
CalledGetAlgorithm(p) ==
  /\ at[p] \in {"finalize", "exited"}
  /\ ~options.parseError
  /\ options.counterType = "ct"
  /\ VarWidth(options.numVars) # 0

\* C14: getAlgorithm returns a pointer to the variant matching the name for
\* each of the seven names, and a pointer holding nullptr, without a throw,
\* when the name is not found
C14_NullForUnknownName ==
  \A p \in Ranks :
    CalledGetAlgorithm(p) =>
      LET got == getAlgorithm(options.algoName)
      IN  /\ ~got.raised
          /\ \A k \in 1..Len(AlgoNames) : options.algoName = AlgoNames[k] => got.object = Variant[k]
          /\ options.algoName \notin SeqRange(AlgoNames) => got.object = "nullptr"

\* the entries of a stream other than the overflow warning, in order
RECURSIVE Unwarned(_)
Unwarned(s) ==
  IF s = << >> THEN << >>
  ELSE IF Head(s) = "WARNING" THEN Unwarned(Tail(s))
  ELSE << Head(s) >> \o Unwarned(Tail(s))

\* C15: the overflow warning is written to stderr exactly when m >= 65536,
\* and the run then goes on as the same run with few observations does: the
\* same output, the same file, the same error or the same success
C15_OverflowWarning ==
  \A p \in Ranks :
    (at[p] \in {"finalize", "exited"} /\ ~options.parseError) =>
      LET quiet == tryBlock([options EXCEPT !.numObs = 1], p = 0)
          n == Len(cout[p])
      IN  /\ ("WARNING" \in SeqRange(cerr[p])) <=> (options.numObs >= 65536)
          /\ SubSeq(cout[p], n - Len(quiet.cout) + 1, n) = quiet.cout
          /\ dot[p] = quiet.dot
          /\ Unwarned(cerr[p]) = IF quiet.thrown = "" THEN << >> ELSE << quiet.thrown >>
          /\ (returned[p] = {1}) <=> (quiet.thrown # "")

C15_Witness ==
  /\ options.numObs = 65536
  /\ \A p \in Ranks : at[p] = "exited" /\ returned[p] = {0}
                      /\ cerr[p] = << "WARNING" >>
  /\ "result" \in SeqRange(cout[0])

\* -------------------------------------------- claims on the set utilities
\* C17: set_union and set_difference leave both arguments as they are and
\* return A union B and A minus B; set_contains(S, v) holds exactly when v is
\* a member of S; set_init(S, c) returns S for every capacity argument c
C17_SetUtilities ==
  [][(op = "none" /\ op' # "none") =>
       /\ firstSet' = firstSet /\ secondSet' = secondSet
       /\ op' = "set_union" => res'.value = firstSet \cup secondSet
       /\ op' = "set_difference" => res'.value = firstSet \ secondSet
       /\ op' = "set_contains" => res'.value = (value \in firstSet)
       /\ op' = "set_init" => res'.value = firstSet]_vars

C17_Witness ==
  /\ op = "set_difference"
  /\ firstSet \cap secondSet # {}
  /\ secondSet \ firstSet # {}
  /\ Cardinality(res.value) >= 2

\* ------------------------------- claims on the round-robin of the subsets
\* the number of subsets enumerated before the one the iterator of rank p is at
RECURSIVE Before(_, _)
Before(k, at_) ==
  IF k = 0 THEN at_ - 1 ELSE Len(Subsets(given, k - 1)) + Before(k - 1, at_)

Position(p) == Before(i[p], sit[p])

\* rank p goes once through the body of the inner loop
Iterates(p) ==
  /\ pc[p] = "loop"
  /\ mine'[p] # mine[p] \/ others'[p] # others[p]

\* C18: the j-th subset of one invocation (from 0, across all sizes) is counted
\* as mine by rank j mod P alone and as others by every other rank; r is never
\* reset at a size boundary or at a reduction; the owner scores the subset
\* unless its local minScore already certifies independence
C18_RoundRobin ==
  [][\A p \in Ranks :
       Iterates(p) =>
         LET j == Position(p)
             owner == j % size
             subset == Subsets(given, i[p])[sit[p]]
             certified == Resolution - minScore[p] > m_threshold
         IN  /\ r[p] = owner
             /\ IF p = owner
                THEN mine'[p] = mine[p] + 1 /\ others'[p] = others[p]
                ELSE mine'[p] = mine[p] /\ others'[p] = others[p] + 1
             /\ minScore'[p] = IF p = owner /\ ~certified
                               THEN Min2(minScore[p], Resolution - pValue(subset))
                               ELSE minScore[p]]_vars

\* past a reduction, a rank starts a new subset size at an index that is not
\* a multiple of the number of ranks
C18_Witness ==
  \E p \in Ranks :
    /\ pc[p] = "loop"
    /\ Len(sent[p]) >= 1
    /\ i[p] >= 1 /\ i[p] <= subsetSize /\ sit[p] = 1
    /\ Position(p) % size # 0
    /\ r[p] = Position(p) % size

\* C19: at every synchronisation point (mine + others = T * P, T >= 1) every
\* rank has been assigned the same number of tests since the previous one:
\* mine = T and others = T * (P - 1) on each rank
C19_EvenBatches ==
  \A p \in Ranks :
    pc[p] = "allreduce" =>
      /\ threshold >= 1
      /\ mine[p] = threshold
      /\ others[p] = threshold * (size - 1)

\* a rank at its second synchronisation point, among several ranks
C19_Witness ==
  /\ size >= 2
  /\ \E p \in Ranks : pc[p] = "allreduce" /\ Len(sent[p]) = 2 /\ mine[p] >= 1

\* some subset of Z within the size cap has a score certifying independence
SomeSubsetCertifies ==
  \E z \in SUBSET given :
    Cardinality(z) <= subsetSize /\ pValue(z) > m_threshold

\* C20: for every P and every T, T = 0 included, the call returns true on at
\* least one rank exactly when some subset of Z of size at most
\* min(|Z|, maxK) certifies independence; no rank returns true without one
C20_TrueIffSomeSubsetCertifies ==
  /\ \A p \in Ranks : (pc[p] = "done" /\ ret[p]) => SomeSubsetCertifies
  /\ AllDone => ((\E p \in Ranks : ret[p]) <=> SomeSubsetCertifies)

\* without reductions, one rank alone returns true
C20_Witness ==
  /\ threshold = 0
  /\ size >= 2
  /\ AllDone
  /\ \E p, q \in Ranks : ret[p] /\ ~ret[q]
  /\ SomeSubsetCertifies

\* ------------------------------------------ claims on the discovery skeleton
\* getMB on a fresh object, computed in one go: the forward rounds, at most
\* `rounds` of them, then the backward sweeps
RECURSIVE FreshForward(_, _, _, _)
FreshForward(a, t, M, rounds) ==
  LET g == growCandidate(a, t, M)
  IN  IF g = {} THEN [ended |-> TRUE, M |-> M]
      ELSE IF rounds = 0 THEN [ended |-> FALSE, M |-> M]
      ELSE FreshForward(a, t, IF a = "InterIAMB" THEN Sweep(t, M \cup g, M \cup g)
                                                ELSE M \cup g, rounds - 1)

RECURSIVE FreshBackward(_, _)
FreshBackward(t, M) ==
  LET swept == Sweep(t, M, M)
  IN  IF swept = M THEN M ELSE FreshBackward(t, swept)

FreshMB(a, t) ==
  LET grown == FreshForward(a, t, {}, 2 ^ (NumVars + 1))
  IN  IF a = "InterIAMB" \/ ~grown.ended THEN grown
      ELSE [ended |-> TRUE, M |-> FreshBackward(t, grown.M)]

\* C16: for GSMB, IAMB and InterIAMB and any CI oracle, getMB(target) returns
\* a set M without the target that is a fixed point of the backward phase (no
\* v in M is independent of the target given M \ {v}); a call in a sequence of
\* calls on one object returns what a fresh object returns
C16_BackwardFixedPoint ==
  stage = "returned" =>
    /\ target \notin mb
    /\ \A v \in mb : ~(Resolution - Score(target, v, mb \ {v}) > m_threshold)
    /\ FreshMB(algo, target) = [ended |-> TRUE, M |-> mb]

\* ------------------------------- claims on the local isIndependentAnySubset
\* C21: for every alpha in (0, 1) the local isIndependentAnySubset returns
\* true exactly when some subset Z' of Z with |Z'| <= min(|Z|, maxK) has a
\* score certifying independence (1 - assocScore > alpha): the early exit of
\* minAssocScore never hides a certifying subset
C21_AnySubsetCertifies ==
  op = "isIndependentAnySubset" =>
    (res.value <=>
       \E z \in SUBSET given :
         /\ Cardinality(z) <= Min2(Cardinality(given), maxSize)
         /\ Resolution - (Resolution - pValue(z)) > m_threshold)

\* ------------------------------------------- claims on the conditioning cap
\* C22: the conditioning cap handed to the discovery algorithm equals
\* min(n, max-conditioning) for every supported n: the conversion to the
\* variable index type picked for n (8-bit for n <= 257, else 16-bit) never
\* changes the value
C22_CapUnchangedByCast ==
  \A p \in Ranks :
    \A cap \in maxConditioning[p] :
      cap = IF options.numVars <= options.maxConditioning
            THEN options.numVars ELSE options.maxConditioning

====
